---- MODULE Spec2Model ----
(***************************************************************************)
(* Model of backend/main.py: the POST /analyze endpoint, its two Steps     *)
(* (transcribe_audio, analyze_text_with_groq) and the handler's mapping of *)
(* exceptions to HTTP responses.  Strings are sequences of characters or   *)
(* of message fragments, so that `in` and str.strip() are computed.        *)
(* The endpoint has no await between entry and response, so one process    *)
(* serves requests one after the other; requests share only groq_client    *)
(* and the providers.                                                      *)
(***************************************************************************)
EXTENDS Integers, Sequences, FiniteSets, TLC

VARIABLES groq_client, reqNo, pc, audio, transcription, sttOut, llmOut,
          response, calls, direct

vars == <<groq_client, reqNo, pc, audio, transcription, sttOut, llmOut,
          response, calls, direct>>

\* ---- bounds ----
MaxRequests == 2
MaxDirect == 1

\* ---- optional strings (Union[str, None]) ----
None == [isNone |-> TRUE, s |-> <<>>]
Str(s) == [isNone |-> FALSE, s |-> s]

\* ---- string helpers ----
Whitespace == {" ", "\n", "\t"}

RECURSIVE LStrip(_)
LStrip(s) == IF s = <<>> THEN <<>>
             ELSE IF Head(s) \in Whitespace THEN LStrip(Tail(s)) ELSE s

RECURSIVE RStrip(_)
RStrip(s) == IF s = <<>> THEN <<>>
             ELSE IF s[Len(s)] \in Whitespace
                  THEN RStrip(SubSeq(s, 1, Len(s) - 1)) ELSE s

\* str.strip()
Strip(s) == RStrip(LStrip(s))

\* needle in hay
Contains(hay, needle) ==
    \E i \in 1..(Len(hay) - Len(needle) + 1) :
        SubSeq(hay, i, i + Len(needle) - 1) = needle

\* ---- the module-level provider handle ----
NoClient == "None"
Client == "Groq"

\* ---- uploads ----
AudioLit == <<"a", "u", "d", "i", "o">>

ContentTypes ==
    { None,
      Str(<<>>),
      Str(<<"a", "u", "d", "i", "o", "/", "w", "a", "v">>),
      Str(<<"x", "-", "a", "u", "d", "i", "o">>),
      Str(<<"i", "m", "a", "g", "e", "/", "p", "n", "g">>),
      Str(<<"A", "u", "d", "i", "o", "/", "w", "a", "v">>),
      Str(<<"a", "u", "d", "i">>) }

Payloads == {"bytesA", "bytesB"}

Uploads == [content_type : ContentTypes, file : Payloads]

NoUpload == [content_type |-> None, file |-> "none"]

\* ---- provider behaviours ----
Transcripts ==
    { <<>>, <<" ">>, <<" ", "\n">>, <<"s", "a", "y", "a">>, <<" ", "s", "\n">> }

SttOutcomes ==
    [kind : {"text"}, val : Transcripts]
        \cup {[kind |-> "APIError", val |-> <<>>],
              [kind |-> "Exception", val |-> <<>>]}

Contents ==
    { Str(<<"Tidak ada indikasi depresi.">>),
      Str(<<" ", "**", "analisis", "**", "\n">>),
      Str(<<>>),
      None }

LlmOutcomes ==
    [kind : {"content"}, val : Contents]
        \cup {[kind |-> "APIError", val |-> None],
              [kind |-> "Exception", val |-> None]}

NoSttOutcome == [kind |-> "nocall", val |-> <<>>]
NoLlmOutcome == [kind |-> "nocall", val |-> None]

\* str(e) of an exception raised by the provider client
Cause(kind) == <<"<" , kind, ">">>

\* ---- messages ----
NotAudioMsg == <<"File yang diunggah bukan file audio yang valid.">>
NoClientMsg == <<"Klien Groq tidak tersedia.">>
NoSpeechMsg == <<"Tidak dapat mendeteksi suara dalam rekaman. Audio mungkin terlalu sunyi atau tidak jelas.">>

\* ---- results of a Step: a return value or a raised exception ----
\* `sent` is the request the Step sent to the provider, <<>> when it sent none
Return(v, sent) == [exc |-> "none", msg |-> <<>>, val |-> v, sent |-> sent]
Raise(cls, m, sent) == [exc |-> cls, msg |-> m, val |-> None, sent |-> sent]

\* ---- transcribe_audio ----
TryTranscribe_NoStrip(audio_file, stt) ==
    IF stt.kind = "text"
    THEN IF stt.val = <<>>
         THEN Raise("TranscriptionError", NoSpeechMsg, <<audio_file.file>>)
         ELSE Return(Str(stt.val), <<audio_file.file>>)
    ELSE Raise(stt.kind, Cause(stt.kind), <<audio_file.file>>)

\* the try body: the provider call and the blank check
TryTranscribe(audio_file, stt) ==
    IF stt.kind = "text"
    THEN IF Strip(stt.val) = <<>>
         THEN Raise("TranscriptionError", NoSpeechMsg, <<audio_file.file>>)
         ELSE Return(Str(stt.val), <<audio_file.file>>)
    ELSE Raise(stt.kind, Cause(stt.kind), <<audio_file.file>>)

ExceptTranscribe_NoAPIErrorClause(r) ==
    IF r.exc = "none" THEN r
    ELSE Raise("TranscriptionError", <<"Gagal mentranskripsi audio: ">> \o r.msg, r.sent)

\* the except clauses, applied to whatever the try body raised: the
\* TranscriptionError of the blank check is an Exception raised inside the try
ExceptTranscribe(r) ==
    IF r.exc = "none" THEN r
    ELSE IF r.exc = "APIError"
    THEN Raise("GroqError", <<"Error dari API Groq saat transkripsi: ">> \o r.msg, r.sent)
    ELSE Raise("TranscriptionError", <<"Gagal mentranskripsi audio: ">> \o r.msg, r.sent)

\* without the handle check, None.audio raises AttributeError inside the try
transcribe_audio_NoHandleCheck(client, audio_file, stt) ==
    IF client = NoClient
    THEN ExceptTranscribe(Raise("AttributeError", Cause("AttributeError"), <<>>))
    ELSE ExceptTranscribe(TryTranscribe(audio_file, stt))

transcribe_audio(client, audio_file, stt) ==
    IF client = NoClient
    THEN Raise("GroqError", NoClientMsg, <<>>)
    ELSE ExceptTranscribe(TryTranscribe(audio_file, stt))

\* ---- analyze_text_with_groq ----
UserMessage_NoText(text) == <<"Teks transkripsi:", "\n", "\"", "\"">>

\* the user message: f"Teks transkripsi:\n\"{text}\""
UserMessage(text) == <<"Teks transkripsi:", "\n", "\"">> \o text \o <<"\"">>

TryAnalyze_Stripped(text, llm) ==
    IF llm.kind = "content"
    THEN Return(IF llm.val.isNone THEN None ELSE Str(Strip(llm.val.s)), UserMessage(text))
    ELSE Raise(llm.kind, Cause(llm.kind), UserMessage(text))

\* the try body: the provider call and choices[0].message.content
TryAnalyze(text, llm) ==
    IF llm.kind = "content"
    THEN Return(llm.val, UserMessage(text))
    ELSE Raise(llm.kind, Cause(llm.kind), UserMessage(text))

ExceptAnalyze_NoExceptionClause(r) ==
    IF r.exc = "none" THEN r
    ELSE IF r.exc = "APIError"
    THEN Raise("GroqError", <<"Error dari API Groq saat analisis: ">> \o r.msg, r.sent)
    ELSE r

ExceptAnalyze(r) ==
    IF r.exc = "none" THEN r
    ELSE IF r.exc = "APIError"
    THEN Raise("GroqError", <<"Error dari API Groq saat analisis: ">> \o r.msg, r.sent)
    ELSE Raise("GroqError", <<"Terjadi kesalahan saat menganalisis teks: ">> \o r.msg, r.sent)

analyze_text_with_groq(client, text, llm) ==
    IF client = NoClient
    THEN Raise("GroqError", NoClientMsg, <<>>)
    ELSE ExceptAnalyze(TryAnalyze(text, llm))

\* ---- the endpoint ----
ValidContentType_Truthy(ct) == ~ct.isNone /\ ct.s # <<>>

\* not (not audio.content_type or "audio" not in audio.content_type)
ValidContentType(ct) == ~ct.isNone /\ ct.s # <<>> /\ Contains(ct.s, AudioLit)

\* a response: status, the AnalysisResponse body fields (200) or the
\* HTTPException detail (otherwise), and the class the handler caught
NoResponse == [status |-> 0, analysis |-> None, error |-> None,
               detail |-> None, caught |-> "none"]

HttpException(code, m, cls) ==
    [status |-> code, analysis |-> None, error |-> None,
     detail |-> Str(m), caught |-> cls]

\* return {"analysis": analysis}, serialised through AnalysisResponse
Ok(analysis) ==
    [status |-> 200, analysis |-> analysis, error |-> None,
     detail |-> None, caught |-> "none"]

HandlerExcept_NoTranscriptionClause(r) ==
    IF r.exc = "GroqError" THEN HttpException(503, r.msg, r.exc)
    ELSE HttpException(500, <<"Terjadi kesalahan tak terduga: ">> \o r.msg, r.exc)

\* the except clauses of the endpoint, first match wins
HandlerExcept(r) ==
    IF r.exc = "TranscriptionError" THEN HttpException(400, r.msg, r.exc)
    ELSE IF r.exc = "GroqError" THEN HttpException(503, r.msg, r.exc)
    ELSE HttpException(500, <<"Terjadi kesalahan tak terduga: ">> \o r.msg, r.exc)

NoDirect == [n |-> 0, client |-> NoClient, res |-> Return(None, <<>>)]

Init ==
    /\ groq_client \in {Client, NoClient}
    /\ reqNo = 0
    /\ pc = "Idle"
    /\ audio = NoUpload
    /\ transcription = None
    /\ sttOut = NoSttOutcome
    /\ llmOut = NoLlmOutcome
    /\ response = NoResponse
    /\ calls = <<>>
    /\ direct = NoDirect

\* a POST /analyze request arrives with its upload bound to `audio`
Receive ==
    /\ pc \in {"Idle", "Done"}
    /\ reqNo < MaxRequests
    /\ \E up \in Uploads : audio' = up
    /\ reqNo' = reqNo + 1
    /\ pc' = "Validating"
    /\ transcription' = None
    /\ sttOut' = NoSttOutcome
    /\ llmOut' = NoLlmOutcome
    /\ response' = NoResponse
    /\ UNCHANGED <<groq_client, calls, direct>>

ValidateReject ==
    /\ pc = "Validating"
    /\ ~ValidContentType(audio.content_type)
    /\ response' = HttpException(400, NotAudioMsg, "validation")
    /\ pc' = "Done"
    /\ UNCHANGED <<groq_client, reqNo, audio, transcription, sttOut, llmOut, calls, direct>>

ValidateAccept ==
    /\ pc = "Validating"
    /\ ValidContentType(audio.content_type)
    /\ pc' = "Transcribing"
    /\ UNCHANGED <<groq_client, reqNo, audio, transcription, sttOut, llmOut, response, calls, direct>>

\* transcription = transcribe_audio(audio), and the handler's except
\* clauses when it raises
Transcribe ==
    /\ pc = "Transcribing"
    /\ \E stt \in SttOutcomes :
         LET r == transcribe_audio(groq_client, audio, stt) IN
         /\ sttOut' = IF r.sent # <<>> THEN stt ELSE NoSttOutcome
         /\ calls' = IF r.sent # <<>>
                     THEN Append(calls, [req |-> reqNo, api |-> "stt", arg |-> r.sent])
                     ELSE calls
         /\ IF r.exc = "none"
            THEN /\ transcription' = r.val
                 /\ pc' = "Analyzing"
                 /\ UNCHANGED response
            ELSE /\ response' = HandlerExcept(r)
                 /\ pc' = "Done"
                 /\ UNCHANGED transcription
    /\ UNCHANGED <<groq_client, reqNo, audio, llmOut, direct>>

\* analysis = analyze_text_with_groq(transcription); return or except
Analyze ==
    /\ pc = "Analyzing"
    /\ \E llm \in LlmOutcomes :
         LET r == analyze_text_with_groq(groq_client, transcription.s, llm) IN
         /\ llmOut' = IF r.sent # <<>> THEN llm ELSE NoLlmOutcome
         /\ calls' = IF r.sent # <<>>
                     THEN Append(calls, [req |-> reqNo, api |-> "llm", arg |-> r.sent])
                     ELSE calls
         /\ response' = IF r.exc = "none" THEN Ok(r.val) ELSE HandlerExcept(r)
         /\ pc' = "Done"
    /\ UNCHANGED <<groq_client, reqNo, audio, transcription, sttOut, direct>>

\* analyze_text_with_groq invoked as a function, outside any request
DirectAnalyze ==
    /\ pc \in {"Idle", "Done"}
    /\ direct.n < MaxDirect
    /\ \E text \in {t \in Transcripts : Strip(t) # <<>>}, llm \in LlmOutcomes :
         LET r == analyze_text_with_groq(groq_client, text, llm) IN
         /\ direct' = [n |-> direct.n + 1, client |-> groq_client, res |-> r]
         /\ calls' = IF r.sent # <<>>
                     THEN Append(calls, [req |-> 0, api |-> "llm", arg |-> r.sent])
                     ELSE calls
    /\ UNCHANGED <<groq_client, reqNo, pc, audio, transcription, sttOut, llmOut, response>>

Next ==
    \/ Receive
    \/ ValidateReject
    \/ ValidateAccept
    \/ Transcribe
    \/ Analyze
    \/ DirectAnalyze

Spec == Init /\ [][Next]_vars

\* ---- vocabulary of the properties ----
\* positions in the call log of the calls the current request made to `api`
OwnCalls(api) == {i \in DOMAIN calls : calls[i].req = reqNo /\ calls[i].api = api}

InRequest == reqNo > 0 /\ pc # "Idle"
Answered == reqNo > 0 /\ pc = "Done"
BlankTranscript == sttOut.kind = "text" /\ Strip(sttOut.val) = <<>>
SpokenTranscript == sttOut.kind = "text" /\ Strip(sttOut.val) # <<>>
AnalysisPopulated == ~response.analysis.isNone
ErrorPopulated == ~response.error.isNone \/ ~response.detail.isNone

\* C1: a request whose content type is absent or lacks "audio" is answered
\* 400 and calls neither provider.
C1_NonAudioRejected ==
    (InRequest /\ (audio.content_type.isNone
                     \/ ~Contains(audio.content_type.s, AudioLit)))
        => /\ OwnCalls("stt") = {} /\ OwnCalls("llm") = {}
           /\ pc \in {"Validating", "Done"}
           /\ pc = "Done" => response.status = 400

C1_Witness ==
    /\ Answered /\ reqNo = 2 /\ calls # <<>>
    /\ audio.content_type = Str(<<"i", "m", "a", "g", "e", "/", "p", "n", "g">>)
    /\ response.status = 400

\* C2: when the speech-to-text call returns a blank transcript the response
\* is 400, its message contains the no-detectable-speech text, and the
\* language model is not called.
C2_BlankTranscriptRejected ==
    (InRequest /\ BlankTranscript)
        => /\ pc = "Done"
           /\ response.status = 400
           /\ Contains(response.detail.s, NoSpeechMsg)
           /\ OwnCalls("llm") = {} /\ llmOut = NoLlmOutcome

C2_Witness ==
    /\ Answered /\ sttOut = [kind |-> "text", val |-> <<" ", "\n">>]
    /\ response.status = 400

\* C3: non-blank transcript and a successful language-model call give 200
\* with analysis equal to the provider's content and error null.
C3_AnalysisVerbatim ==
    (InRequest /\ SpokenTranscript /\ llmOut.kind = "content")
        => /\ pc = "Done"
           /\ response.status = 200
           /\ response.analysis = llmOut.val
           /\ response.error = None /\ response.detail = None

C3_Witness ==
    /\ Answered /\ SpokenTranscript
    /\ llmOut = [kind |-> "content", val |-> Str(<<" ", "**", "analisis", "**", "\n">>)]
    /\ response.status = 200

\* C4: a provider-level error of the speech-to-text call gives 503 and no
\* language-model call.
C4_SttApiError503 ==
    (InRequest /\ sttOut.kind = "APIError")
        => /\ pc = "Done"
           /\ response.status = 503
           /\ OwnCalls("llm") = {} /\ llmOut = NoLlmOutcome

C4_Witness ==
    Answered /\ sttOut.kind = "APIError" /\ response.status = 503

\* C5: any failure of the language-model call after a successful
\* transcription is raised as GroqError and answered 503.
C5_LlmFailure503 ==
    (InRequest /\ llmOut.kind \in {"APIError", "Exception"})
        => /\ pc = "Done"
           /\ response.caught = "GroqError"
           /\ response.status = 503

C5_Witness ==
    /\ Answered /\ SpokenTranscript /\ llmOut.kind = "Exception"
    /\ response.status = 503

\* C6: every response has exactly one of the analysis result and the error
\* report populated.
C6_ExactlyOnePopulated ==
    Answered => (AnalysisPopulated # ErrorPopulated)

\* C7: with groq_client None a valid request ends in 503 raised as GroqError
\* by the Transcription Step with no provider call, and the Analysis Step
\* raises GroqError too.
C7_NoClient503 ==
    groq_client = NoClient
        => /\ calls = <<>>
           /\ pc # "Analyzing"
           /\ (Answered /\ ValidContentType(audio.content_type))
                => /\ response.status = 503
                   /\ response.caught = "GroqError"
                   /\ response.detail = Str(NoClientMsg)
                   /\ sttOut = NoSttOutcome /\ llmOut = NoLlmOutcome
           /\ direct.n > 0
                => /\ direct.client = NoClient
                   /\ direct.res.exc = "GroqError"
                   /\ direct.res.sent = <<>>

C7_Witness ==
    /\ groq_client = NoClient /\ Answered
    /\ ValidContentType(audio.content_type)
    /\ response.status = 503
    /\ direct.n > 0 /\ direct.res.exc = "GroqError"

C9_OneSttThenLlm ==
    (InRequest /\ groq_client = Client)
        => /\ Cardinality(OwnCalls("stt")) <= 1
           /\ Cardinality(OwnCalls("llm")) <= 1
           /\ (Answered /\ ValidContentType(audio.content_type))
                => Cardinality(OwnCalls("stt")) = 1
           /\ \A j \in OwnCalls("llm") :
                /\ \E i \in OwnCalls("stt") : i < j
                /\ SpokenTranscript
                /\ transcription = Str(sttOut.val)
                /\ Contains(calls[j].arg, sttOut.val)

C9_Witness ==
    /\ Answered /\ reqNo = 2
    /\ OwnCalls("llm") # {}
    /\ \E i \in DOMAIN calls : \E j \in OwnCalls("stt") :
         calls[i].req = 1 /\ calls[i].api = "stt" /\ calls[i].arg = calls[j].arg

\* C10: every response is 200, 400 or 503; the generic except clause of
\* the endpoint is never taken.
C10_No500 ==
    Answered
        => /\ response.status \in {200, 400, 503}
           /\ response.caught \in {"none", "validation", "TranscriptionError", "GroqError"}

C10_Witness ==
    Answered /\ sttOut.kind = "Exception" /\ response.status = 400
====
